---- MODULE Spec2Model ----
(***************************************************************************)
(* Two sketches of the SparkFun WM8960 library examples:                   *)
(*   Example_08_I2S_Passthrough.ino  (sketch = "passthrough")              *)
(*   Example_12_AutomaticLevelControl.ino (sketch = "alc")                 *)
(* Each sketch is setup() followed by loop() forever.  Every call the      *)
(* sketch makes on the codec driver, Wire, Serial, the I2S driver or the   *)
(* ADC is recorded in `call` (the most recent call) and `count` (how many  *)
(* times each function was called, saturating at CountCap).                *)
(***************************************************************************)
EXTENDS Integers, Sequences, FiniteSets, TLC

VARIABLES sketch, pc, k, begun, call, count,
          sBuffer, bytesIn, bytesOut, result, result_w,
          userInputA0, i, alcTarget, a0, iterSum

vars == <<sketch, pc, k, begun, call, count,
          sBuffer, bytesIn, bytesOut, result, result_w,
          userInputA0, i, alcTarget, a0, iterSum>>

passVars == <<sBuffer, bytesIn, bytesOut, result, result_w>>
alcVars  == <<userInputA0, i, alcTarget, iterSum>>

-----------------------------------------------------------------------------
(* Bounds of the model *)

\* history counters in `count` saturate here
CountCap == 3
\* the potentiometer may be turned whenever the sample index is a multiple
\* of PotStride (and between iterations)
PotStride == 100

\* pin voltages the potentiometer can be set to (raw 12-bit ADC readings)
Readings == {0, 2048, 4095}
\* byte values the codec's ADC delivers
Bytes == {1, 2}

-----------------------------------------------------------------------------
(* Program constants *)

bufferLen == 64
BytesPerSample == 2
SizeofSBuffer == bufferLen * BytesPerSample
dma_buf_len == bufferLen
I2S_PORT == 0
NumReadings == 250

ESP_OK == "ESP_OK"
ESP_FAIL == "ESP_FAIL"

-----------------------------------------------------------------------------
(* codec_setup() of the two sketches: the calls in program order *)

codec_setup_08 ==
    << <<"codec.enableVREF", "">>,
       <<"codec.enableVMID", "">>,
       <<"codec.enable_LMIC", "">>,
       <<"codec.enable_RMIC", "">>,
       <<"codec.connect_LMN1", "">>,
       <<"codec.connect_RMN1", "">>,
       <<"codec.disable_LINMUTE", "">>,
       <<"codec.disable_RINMUTE", "">>,
       <<"codec.set_LMICBOOST", "0">>,
       <<"codec.set_RMICBOOST", "0">>,
       <<"codec.connect_LMIC2B", "">>,
       <<"codec.connect_RMIC2B", "">>,
       <<"codec.enable_AINL", "">>,
       <<"codec.enable_AINR", "">>,
       <<"codec.disableLB2LO", "">>,
       <<"codec.disableRB2RO", "">>,
       <<"codec.enableLD2LO", "">>,
       <<"codec.enableRD2RO", "">>,
       <<"codec.setLB2LOVOL", "0">>,
       <<"codec.setRB2ROVOL", "0">>,
       <<"codec.enableLOMIX", "">>,
       <<"codec.enableROMIX", "">>,
       <<"codec.enablePLL", "">>,
       <<"codec.set_PLLPRESCALE", "PLLPRESCALE_DIV_2">>,
       <<"codec.set_SMD", "PLL_MODE_FRACTIONAL">>,
       <<"codec.set_CLKSEL", "CLKSEL_PLL">>,
       <<"codec.set_SYSCLKDIV", "SYSCLK_DIV_BY_2">>,
       <<"codec.set_BCLKDIV", "4">>,
       <<"codec.set_DCLKDIV", "DCLKDIV_16">>,
       <<"codec.set_PLLN", "7">>,
       <<"codec.set_PLLK", "0x86, 0xC2, 0x26">>,
       <<"codec.set_WL", "WL_16BIT">>,
       <<"codec.enablePeripheralMode", "">>,
       <<"codec.enableAdcLeft", "">>,
       <<"codec.enableAdcRight", "">>,
       <<"codec.enableDacLeft", "">>,
       <<"codec.enableDacRight", "">>,
       <<"codec.disableDacMute", "">>,
       <<"codec.disableLoopBack", "">>,
       <<"codec.disableDacMute", "">>,
       <<"codec.enableHeadphones", "">>,
       <<"codec.enableOUT3MIX", "">>,
       <<"Serial.println", "Volume set to +0dB">>,
       <<"codec.setHeadphoneVolume", "120">>,
       <<"Serial.println", "Codec Setup complete. Listen to left/right INPUT1 on Headphone outputs.">> >>

\* codec_setup(), lines 139-182
analog_12 ==
    << <<"codec.enableVREF", "">>,
       <<"codec.enableVMID", "">>,
       <<"codec.enableLMIC", "">>,
       <<"codec.enableRMIC", "">>,
       <<"codec.connectLMN1", "">>,
       <<"codec.connectRMN1", "">>,
       <<"codec.disableLINMUTE", "">>,
       <<"codec.disableRINMUTE", "">>,
       <<"codec.setLMICBOOST", "WM8960_MIC_BOOST_GAIN_0DB">>,
       <<"codec.setRMICBOOST", "WM8960_MIC_BOOST_GAIN_0DB">>,
       <<"codec.connectLMIC2B", "">>,
       <<"codec.connectRMIC2B", "">>,
       <<"codec.enableAINL", "">>,
       <<"codec.enableAINR", "">>,
       <<"codec.disableLB2LO", "">>,
       <<"codec.disableRB2RO", "">>,
       <<"codec.enableLD2LO", "">>,
       <<"codec.enableRD2RO", "">>,
       <<"codec.setLB2LOVOL", "WM8960_OUTPUT_MIXER_GAIN_NEG_21DB">>,
       <<"codec.setRB2ROVOL", "WM8960_OUTPUT_MIXER_GAIN_NEG_21DB">>,
       <<"codec.enableLOMIX", "">>,
       <<"codec.enableROMIX", "">> >>

\* codec_setup(), lines 186-194
clock_12 ==
    << <<"codec.enablePLL", "">>,
       <<"codec.setPLLPRESCALE", "WM8960_PLLPRESCALE_DIV_2">>,
       <<"codec.setSMD", "WM8960_PLL_MODE_FRACTIONAL">>,
       <<"codec.setCLKSEL", "WM8960_CLKSEL_PLL">>,
       <<"codec.setSYSCLKDIV", "WM8960_SYSCLK_DIV_BY_2">>,
       <<"codec.setBCLKDIV", "4">>,
       <<"codec.setDCLKDIV", "WM8960_DCLKDIV_16">>,
       <<"codec.setPLLN", "7">>,
       <<"codec.setPLLK", "0x86, 0xC2, 0x26">> >>

\* setALRCGPIO issued after the ADCs are enabled
converters_12_late_gpio ==
    << <<"codec.enableMasterMode", "">>,
       <<"codec.enableAdcLeft", "">>,
       <<"codec.enableAdcRight", "">>,
       <<"codec.setALRCGPIO", "">>,
       <<"codec.enableDacLeft", "">>,
       <<"codec.enableDacRight", "">>,
       <<"codec.disableDacMute", "">>,
       <<"codec.enableLoopBack", "">>,
       <<"codec.disableDacMute", "">>,
       <<"codec.enableHeadphones", "">>,
       <<"codec.enableOUT3MIX", "">> >>

\* codec_setup(), lines 198-214
converters_12 ==
    << <<"codec.enableMasterMode", "">>,
       <<"codec.setALRCGPIO", "">>,
       <<"codec.enableAdcLeft", "">>,
       <<"codec.enableAdcRight", "">>,
       <<"codec.enableDacLeft", "">>,
       <<"codec.enableDacRight", "">>,
       <<"codec.disableDacMute", "">>,
       <<"codec.enableLoopBack", "">>,
       <<"codec.disableDacMute", "">>,
       <<"codec.enableHeadphones", "">>,
       <<"codec.enableOUT3MIX", "">> >>

\* the hold time is written a second time
alc_12_hold_twice ==
    << <<"codec.enablePgaZeroCross", "">>,
       <<"codec.enableAlc", "WM8960_ALC_MODE_STEREO">>,
       <<"codec.setAlcTarget", "WM8960_ALC_TARGET_LEVEL_NEG_6DB">>,
       <<"codec.setAlcDecay", "WM8960_ALC_DECAY_TIME_192MS">>,
       <<"codec.setAlcAttack", "WM8960_ALC_ATTACK_TIME_24MS">>,
       <<"codec.setAlcHold", "WM8960_ALC_HOLD_TIME_0MS">>,
       <<"codec.setAlcMaxGain", "WM8960_ALC_MAX_GAIN_LEVEL_30DB">>,
       <<"codec.setAlcMinGain", "WM8960_ALC_MIN_GAIN_LEVEL_NEG_17_25DB">>,
       <<"codec.setAlcHold", "WM8960_ALC_HOLD_TIME_0MS">> >>

\* codec_setup(), lines 220-228
alc_12 ==
    << <<"codec.enablePgaZeroCross", "">>,
       <<"codec.enableAlc", "WM8960_ALC_MODE_STEREO">>,
       <<"codec.setAlcTarget", "WM8960_ALC_TARGET_LEVEL_NEG_6DB">>,
       <<"codec.setAlcDecay", "WM8960_ALC_DECAY_TIME_192MS">>,
       <<"codec.setAlcAttack", "WM8960_ALC_ATTACK_TIME_24MS">>,
       <<"codec.setAlcMaxGain", "WM8960_ALC_MAX_GAIN_LEVEL_30DB">>,
       <<"codec.setAlcMinGain", "WM8960_ALC_MIN_GAIN_LEVEL_NEG_17_25DB">>,
       <<"codec.setAlcHold", "WM8960_ALC_HOLD_TIME_0MS">> >>

\* codec_setup(), lines 230-233
volume_12 ==
    << <<"Serial.println", "Headphopne Amp Volume set to +0dB">>,
       <<"codec.setHeadphoneVolumeDB", "0.00">>,
       <<"Serial.println", "Codec setup complete. Listen to left/right INPUT1 on Headphone outputs.">> >>

codec_setup_12 == analog_12 \o clock_12 \o converters_12 \o alc_12 \o volume_12

codec_setup(s) == IF s = "passthrough" THEN codec_setup_08 ELSE codec_setup_12

OtherCalls == {"Serial.begin", "Serial.println", "Serial.print", "Wire.begin",
               "codec.begin", "i2s_driver_install", "i2s_set_pin", "i2s_start",
               "i2s_read", "i2s_write", "analogRead"}

Names == OtherCalls
         \cup {codec_setup_08[j][1] : j \in 1..Len(codec_setup_08)}
         \cup {codec_setup_12[j][1] : j \in 1..Len(codec_setup_12)}

-----------------------------------------------------------------------------
(* Helpers *)

Min(a, b) == IF a < b THEN a ELSE b

\* C integer division: truncates toward zero
CDiv(a, b) ==
    IF b = 0 THEN 0
    ELSE IF (a >= 0) = (b > 0)
         THEN (IF a >= 0 THEN a ELSE -a) \div (IF b >= 0 THEN b ELSE -b)
         ELSE -((IF a >= 0 THEN a ELSE -a) \div (IF b >= 0 THEN b ELSE -b))

\* Arduino map(): (x - in_min) * (out_max - out_min) / (in_max - in_min) + out_min
map(x, in_min, in_max, out_min, out_max) ==
    CDiv((x - in_min) * (out_max - out_min), in_max - in_min) + out_min

Call(fn, args, num, data, ret) ==
    [fn |-> fn, args |-> args, num |-> num, data |-> data, ret |-> ret]

NoCall == Call("", "", 0, <<>>, "")

Bump(c, fn) == [c EXCEPT ![fn] = Min(@ + 1, CountCap)]

\* len bytes of sBuffer, starting at its first byte
Mem(buf, len) == [j \in 1..len |-> IF j <= Len(buf) THEN buf[j] ELSE 0]

\* the first n bytes of buf overwritten by data
Store(buf, data) == [j \in 1..Len(buf) |-> IF j <= Len(data) THEN data[j] ELSE buf[j]]

-----------------------------------------------------------------------------
(* Control flow of setup() and loop() *)

\* the result of codec.begin() is ignored
AfterBeginNoCheck(ok) == "codec_setup"

\* if (codec.begin() == false) { ...; while (1); }
AfterBegin(ok) == IF ok THEN "codec_setup" ELSE "freeze"

AfterCodecSetup(s) == IF s = "passthrough" THEN "i2s_install" ELSE "loop"

\* a failed read stops the sketch
AfterReadHalt(res) == IF res = ESP_OK THEN "loop_write" ELSE "freeze"

\* if (result == ESP_OK) { i2s_write(...) }
AfterRead(res) == IF res = ESP_OK THEN "loop_write" ELSE "loop_read"

\* the driver is set up again after every write
AfterWriteReinstall(res) == "i2s_install"

\* result_w is discarded; loop() returns and is called again
AfterWrite(res) == "loop_read"

\* the size is given in bytes of 32-bit samples
ReadSizeWide == bufferLen * BytesPerSample * 2

\* third argument of i2s_read
ReadSize == bufferLen

\* a full buffer is written whatever was read
WriteSizeFull(n) == bufferLen

\* third argument of i2s_write
WriteSize(n) == n

\* the sum is divided by 25
AverageNoDivide(sum) == CDiv(sum, 25)

\* userInputA0 /= 250
Average(sum) == CDiv(sum, NumReadings)

AlcTargetOf(u) == map(u, 0, 4096, 15, 0)

-----------------------------------------------------------------------------
Init ==
    /\ sketch \in {"passthrough", "alc"}
    /\ pc = "setup"
    /\ k = 0
    /\ begun = "pending"
    /\ call = NoCall
    /\ count = [n \in Names |-> 0]
    /\ sBuffer = [j \in 1..SizeofSBuffer |-> 0]
    /\ bytesIn = 0
    /\ bytesOut = 0
    /\ result = ESP_OK
    /\ result_w = ESP_OK
    /\ userInputA0 = 0
    /\ i = 0
    /\ alcTarget = 0
    /\ a0 \in Readings
    /\ iterSum = 0

\* Serial.begin(115200); Serial.println(banner)
SetupSerial ==
    /\ pc = "setup"
    /\ pc' = "wire_begin"
    /\ call' = Call("Serial.println",
                    IF sketch = "passthrough" THEN "Example 8 - I2S Passthough"
                    ELSE "Example 12 - Automatic Level Control", 0, <<>>, "")
    /\ count' = Bump(Bump(count, "Serial.begin"), "Serial.println")
    /\ UNCHANGED <<sketch, k, begun, passVars, alcVars, a0>>

\* Wire.begin()
WireBegin ==
    /\ pc = "wire_begin"
    /\ pc' = "codec_begin"
    /\ call' = Call("Wire.begin", "", 0, <<>>, "")
    /\ count' = Bump(count, "Wire.begin")
    /\ UNCHANGED <<sketch, k, begun, passVars, alcVars, a0>>

\* if (codec.begin() == false) { println; while (1); } println
CodecBegin ==
    /\ pc = "codec_begin"
    /\ \E ok \in BOOLEAN :
         /\ pc' = AfterBegin(ok)
         /\ begun' = IF ok THEN "ok" ELSE "failed"
         /\ call' = Call("Serial.println",
                         IF ok THEN "Device is connected properly."
                         ELSE "The device did not respond. Please check wiring.",
                         0, <<>>, "")
    /\ count' = Bump(Bump(count, "codec.begin"), "Serial.println")
    /\ UNCHANGED <<sketch, k, passVars, alcVars, a0>>

\* the (k+1)-th call of codec_setup()
CodecSetupStep ==
    /\ pc = "codec_setup"
    /\ k < Len(codec_setup(sketch))
    /\ LET c == codec_setup(sketch)[k + 1] IN
         /\ call' = Call(c[1], c[2], 0, <<>>, "")
         /\ count' = Bump(count, c[1])
    /\ k' = k + 1
    /\ pc' = IF k + 1 = Len(codec_setup(sketch)) THEN AfterCodecSetup(sketch) ELSE pc
    /\ UNCHANGED <<sketch, begun, passVars, alcVars, a0>>

\* i2s_install(): i2s_driver_install(I2S_PORT, &i2s_config, 0, NULL), result discarded
I2sInstall ==
    /\ pc = "i2s_install"
    /\ pc' = "i2s_setpin"
    /\ \E r \in {ESP_OK, ESP_FAIL} :
         call' = Call("i2s_driver_install", "I2S_PORT, &i2s_config, 0, NULL", dma_buf_len, <<>>, r)
    /\ count' = Bump(count, "i2s_driver_install")
    /\ UNCHANGED <<sketch, k, begun, passVars, alcVars, a0>>

\* i2s_setpin(): i2s_set_pin(I2S_PORT, &pin_config), result discarded
I2sSetpin ==
    /\ pc = "i2s_setpin"
    /\ pc' = "i2s_start"
    /\ \E r \in {ESP_OK, ESP_FAIL} :
         call' = Call("i2s_set_pin", "I2S_PORT, &pin_config", I2S_PORT, <<>>, r)
    /\ count' = Bump(count, "i2s_set_pin")
    /\ UNCHANGED <<sketch, k, begun, passVars, alcVars, a0>>

\* i2s_start(I2S_PORT), result discarded; setup() returns
I2sStart ==
    /\ pc = "i2s_start"
    /\ pc' = "loop_read"
    /\ \E r \in {ESP_OK, ESP_FAIL} :
         call' = Call("i2s_start", "I2S_PORT", I2S_PORT, <<>>, r)
    /\ count' = Bump(count, "i2s_start")
    /\ UNCHANGED <<sketch, k, begun, passVars, alcVars, a0>>

\* loop(): bytesIn = 0; bytesOut = 0;
\* result = i2s_read(I2S_PORT, &sBuffer, bufferLen, &bytesIn, portMAX_DELAY)
\* The driver delivers n <= size bytes into sBuffer on success.
LoopRead ==
    /\ pc = "loop_read"
    /\ bytesOut' = 0
    /\ \E r \in {ESP_OK, ESP_FAIL} :
       \E n \in {0, 2, ReadSize \div 2, ReadSize} :
       \E v \in Bytes :
         LET data == IF r = ESP_OK THEN [j \in 1..n |-> v] ELSE <<>> IN
         /\ result' = r
         /\ bytesIn' = Len(data)
         /\ sBuffer' = Store(sBuffer, data)
         /\ call' = Call("i2s_read", "I2S_PORT, &sBuffer", ReadSize, data, r)
         /\ pc' = AfterRead(r)
    /\ count' = Bump(count, "i2s_read")
    /\ UNCHANGED <<sketch, k, begun, result_w, alcVars, a0>>

\* result_w = i2s_write(I2S_PORT, &sBuffer, bytesIn, &bytesOut, portMAX_DELAY)
LoopWrite ==
    /\ pc = "loop_write"
    /\ \E r \in {ESP_OK, ESP_FAIL} :
       \E n \in {0, WriteSize(bytesIn)} :
         /\ result_w' = r
         /\ bytesOut' = IF r = ESP_OK THEN n ELSE 0
         /\ call' = Call("i2s_write", "I2S_PORT, &sBuffer", WriteSize(bytesIn),
                         Mem(sBuffer, WriteSize(bytesIn)), r)
         /\ pc' = AfterWrite(r)
    /\ count' = Bump(count, "i2s_write")
    /\ UNCHANGED <<sketch, k, begun, sBuffer, bytesIn, result, alcVars, a0>>

\* one pass of: for (i = 0; i < 250; i++) { userInputA0 += analogRead(A0); delay(1); }
AlcSample ==
    /\ pc = "loop"
    /\ i < NumReadings
    /\ userInputA0' = userInputA0 + a0
    /\ iterSum' = IF i = 0 THEN a0 ELSE iterSum + a0
    /\ i' = i + 1
    /\ call' = Call("analogRead", "A0", a0, <<>>, "")
    /\ count' = Bump(count, "analogRead")
    /\ UNCHANGED <<sketch, pc, k, begun, passVars, alcTarget, a0>>

\* userInputA0 /= 250; alcTarget = map(...); print; codec.setAlcTarget(alcTarget);
\* delay(1000); loop() returns and is called again
AlcAdjust ==
    /\ pc = "loop"
    /\ i = NumReadings
    /\ userInputA0' = Average(userInputA0)
    /\ alcTarget' = AlcTargetOf(userInputA0')
    /\ call' = Call("codec.setAlcTarget", "alcTarget", alcTarget', <<>>, "")
    /\ count' = Bump(Bump(Bump(count, "Serial.print"), "Serial.println"),
                     "codec.setAlcTarget")
    /\ i' = 0
    /\ UNCHANGED <<sketch, pc, k, begun, passVars, iterSum, a0>>

\* the user turns the potentiometer on A0
TurnPot ==
    /\ sketch = "alc"
    /\ pc = "loop"
    /\ i % PotStride = 0
    /\ a0' \in Readings \ {a0}
    /\ UNCHANGED <<sketch, pc, k, begun, call, count, passVars, alcVars>>

Next ==
    \/ SetupSerial
    \/ WireBegin
    \/ CodecBegin
    \/ CodecSetupStep
    \/ I2sInstall
    \/ I2sSetpin
    \/ I2sStart
    \/ LoopRead
    \/ LoopWrite
    \/ AlcSample
    \/ AlcAdjust
    \/ TurnPot

Spec == Init /\ [][Next]_vars

-----------------------------------------------------------------------------
(* Properties *)

InPassLoop == sketch = "passthrough" /\ pc \in {"loop_read", "loop_write"}
InAlcLoop  == sketch = "alc" /\ pc = "loop"

\* number of entries of s that call fn
Mult(s, fn) == Cardinality({j \in 1..Len(s) : s[j][1] = fn})

CodecNames == {n \in Names : n \notin OtherCalls}

\* calls made by setup() up to and including a failed codec.begin()
UpToFailedBegin(fn) ==
    IF fn \in {"Serial.begin", "Wire.begin", "codec.begin"} THEN 1
    ELSE IF fn = "Serial.println" THEN 2 ELSE 0

\* C1: in both sketches, once codec.begin() has returned false the program is
\* frozen: the only calls ever made are Serial.begin, the banner, Wire.begin,
\* one codec.begin and the error message; no codec configuration, I2S,
\* analogRead or loop call happens and begin() is not retried.
C1_HaltOnBeginFailure ==
    begun = "failed" =>
        /\ pc = "freeze"
        /\ k = 0
        /\ call.args = "The device did not respond. Please check wiring."
        /\ \A fn \in Names : count[fn] = UpToFailedBegin(fn)

C1_Witness == begun = "failed" /\ sketch = "passthrough" /\ count["codec.begin"] = 1

\* C2: every value the ALC sketch's loop() passes to codec.setAlcTarget() is
\* within 0..15.
C2_AlcTargetInRange ==
    (sketch = "alc" /\ call.fn = "codec.setAlcTarget" /\ call.args = "alcTarget")
        => call.num \in 0..15

\* loop() has passed 0 to setAlcTarget() from an average above the ADC range
C2_Witness ==
    /\ sketch = "alc" /\ call.fn = "codec.setAlcTarget" /\ call.args = "alcTarget"
    /\ userInputA0 > 4095 /\ call.num = 0 /\ count["codec.setAlcTarget"] = CountCap

\* C3: the value of userInputA0 passed to map() is the truncated average of
\* the 250 readings taken in the same iteration of loop().
C3_AverageOfThisIteration ==
    (sketch = "alc" /\ call.fn = "codec.setAlcTarget" /\ call.args = "alcTarget")
        => userInputA0 = CDiv(iterSum, NumReadings)

\* C4: in the passthrough sketch a successful i2s_read is followed directly
\* by one i2s_write of bytesIn bytes carrying the bytes the read delivered,
\* a write is followed directly by the next read, and a write is only ever
\* issued directly after a successful read.
C4_Step ==
    sketch = "passthrough" =>
        /\ (call.fn = "i2s_read" /\ call.ret = ESP_OK) =>
               /\ call'.fn = "i2s_write"
               /\ call'.args = call.args
               /\ call'.num = bytesIn
               /\ bytesIn = Len(call.data)
               /\ call'.data = call.data
        /\ call.fn = "i2s_write" => call'.fn = "i2s_read"
        /\ call'.fn = "i2s_write" => (call.fn = "i2s_read" /\ call.ret = ESP_OK)

C4_ReadThenWrite == [][C4_Step]_vars

\* a short read has been written back after a full one
C4_Witness ==
    /\ sketch = "passthrough" /\ call.fn = "i2s_write"
    /\ call.num = 2 /\ call.data = <<2, 2>> /\ sBuffer[3] = 1
    /\ count["i2s_write"] >= 2

AlcOnceSetters == {"codec.setAlcAttack", "codec.setAlcDecay", "codec.setAlcHold"}

\* C5 as stated: once setup() has returned, target, attack, decay and hold
\* have each been written exactly once.
C5_AllAlcParametersWrittenOnce ==
    InAlcLoop => \A fn \in AlcOnceSetters \cup {"codec.setAlcTarget"} : count[fn] = 1

\* loop() prints "alcTarget: " with Serial.print once per completed iteration
C5_Inv ==
    InAlcLoop => /\ \A fn \in AlcOnceSetters : count[fn] = 1
                 /\ count["analogRead"] = 0 => count["codec.setAlcTarget"] = 1
                 /\ count["codec.setAlcTarget"] =
                        Min(1 + count["Serial.print"], CountCap)

C5_Step ==
    InAlcLoop =>
        /\ \A fn \in AlcOnceSetters : count'[fn] = count[fn]
        /\ count'["codec.setAlcTarget"] # count["codec.setAlcTarget"] => i = NumReadings
        /\ (i = NumReadings /\ i' = 0) =>
               /\ call'.fn = "codec.setAlcTarget" /\ call'.args = "alcTarget"
               /\ count'["codec.setAlcTarget"] =
                      Min(count["codec.setAlcTarget"] + 1, CountCap)

\* C5 amended: attack, decay and hold are written exactly once, in
\* codec_setup(), and never after setup() has returned; the target is written
\* once in codec_setup() and once more at the end of every iteration of loop().
C5_OnlyTargetRewritten == []C5_Inv /\ [][C5_Step]_vars

C5_Witness ==
    /\ InAlcLoop /\ count["codec.setAlcTarget"] = CountCap
    /\ \A fn \in AlcOnceSetters : count[fn] = 1

\* C6: in the passthrough sketch a failed i2s_read is followed by the next
\* i2s_read without a write, an i2s_write is followed by the same i2s_read
\* whatever it returned, and once loop() runs the program stays in loop(),
\* always able to take its next step, with the I2S driver installed once.
C6_Inv ==
    (sketch = "passthrough" /\ count["i2s_read"] > 0) =>
        /\ pc \in {"loop_read", "loop_write"}
        /\ ENABLED (LoopRead \/ LoopWrite)
        /\ count["i2s_driver_install"] = 1
        /\ count["i2s_set_pin"] = 1
        /\ count["i2s_start"] = 1

C6_Step ==
    (sketch = "passthrough"
       /\ (call.fn = "i2s_write" \/ (call.fn = "i2s_read" /\ call.ret # ESP_OK)))
        => /\ call'.fn = "i2s_read"
           /\ call'.args = "I2S_PORT, &sBuffer"
           /\ call'.num = bufferLen

C6_LoopSurvivesFailures == []C6_Inv /\ [][C6_Step]_vars

\* a read is issued after a failed read and after a failed write
C6_Witness ==
    /\ sketch = "passthrough" /\ call.fn = "i2s_read" /\ call.ret = ESP_FAIL
    /\ result_w = ESP_FAIL /\ count["i2s_write"] >= 1 /\ count["i2s_read"] = CountCap

\* C7: every i2s_read requests the whole of sBuffer, 64 samples of 16 bits,
\* the dma_buf_len of i2s_install().
C7_ReadRequestsWholeBuffer ==
    (sketch = "passthrough" /\ call.fn = "i2s_read")
        => /\ call.num = SizeofSBuffer
           /\ call.num = dma_buf_len * BytesPerSample

\* C8: in the passthrough sketch with a successful begin() the start-up calls
\* happen once each and in the order Wire.begin, codec.begin, the calls of
\* codec_setup() (whose last codec call is setHeadphoneVolume),
\* i2s_driver_install, i2s_set_pin, i2s_start, first i2s_read; none of them is
\* repeated once loop() runs.
C8_StartupOrder ==
    (sketch = "passthrough" /\ begun # "failed") =>
        /\ \A fn \in {"Wire.begin", "codec.begin", "i2s_driver_install",
                      "i2s_set_pin", "i2s_start"} : count[fn] <= 1
        /\ \A fn \in CodecNames :
               count[fn] = Min(Mult(SubSeq(codec_setup_08, 1, k), fn), CountCap)
        /\ count["codec.begin"] > 0 => count["Wire.begin"] = 1
        /\ k > 0 => (count["codec.begin"] = 1 /\ begun = "ok")
        /\ count["i2s_driver_install"] > 0 =>
               /\ k = Len(codec_setup_08)
               /\ count["codec.setHeadphoneVolume"] = 1
        /\ count["i2s_set_pin"] > 0 => count["i2s_driver_install"] = 1
        /\ count["i2s_start"] > 0 => count["i2s_set_pin"] = 1
        /\ count["i2s_read"] > 0 => count["i2s_start"] = 1
        /\ InPassLoop => count["i2s_start"] = 1

C8_Witness ==
    /\ InPassLoop /\ count["i2s_read"] = CountCap /\ count["i2s_write"] = CountCap
    /\ count["i2s_driver_install"] = 1 /\ count["codec.setHeadphoneVolume"] = 1

AdcEnabled == count["codec.enableAdcLeft"] > 0 \/ count["codec.enableAdcRight"] > 0

\* C9: in the ALC sketch codec.setALRCGPIO() is called at most once, and
\* never while an ADC is enabled.
C9_Step ==
    (sketch = "alc" /\ count'["codec.setALRCGPIO"] # count["codec.setALRCGPIO"])
        => ~AdcEnabled

C9_Inv ==
    sketch = "alc" => /\ count["codec.setALRCGPIO"] <= 1
                      /\ AdcEnabled => count["codec.setALRCGPIO"] = 1

C9_GpioBeforeAdc == []C9_Inv /\ [][C9_Step]_vars

C9_Witness ==
    /\ InAlcLoop /\ AdcEnabled /\ count["codec.setALRCGPIO"] = 1
    /\ count["codec.setAlcTarget"] = CountCap

\* C10: every i2s_read and i2s_write of the passthrough sketch asks for at
\* most sizeof(sBuffer) bytes.
C10_TransfersWithinBuffer ==
    (sketch = "passthrough" /\ call.fn \in {"i2s_read", "i2s_write"})
        => (call.num >= 0 /\ call.num <= SizeofSBuffer /\ Len(sBuffer) = SizeofSBuffer)

\* an empty successful read has been written back, after a failed read
C10_Witness ==
    /\ sketch = "passthrough" /\ call.fn = "i2s_write" /\ call.num = 0
    /\ count["i2s_read"] = CountCap /\ count["i2s_write"] = 1

====
